---- MODULE Spec2Model ----
(***************************************************************************)
(* Geoscope / Synscope: the ingestion - normalisation - deduplication      *)
(* pipeline of the collector managers (OSINT, SOCMINT, CYBINT, GEOINT,     *)
(* ADSINT, MARITINT, signal log), the SQLAlchemy session each manager      *)
(* owns, the shared SQLite table `intelligence`, and the alert-level       *)
(* calculator.                                                             *)
(*                                                                         *)
(* Conventions                                                             *)
(*   - a nullable value is <<>> (None / SQL NULL) or <<v>>;                *)
(*   - confidence is kept in tenths (10 is 1.0), the mean threat score of  *)
(*     calculate_defcon in hundredths (8499 is 84.99);                     *)
(*   - a source_url is NULL or a tuple <<namespace, n, t>>: URLs, CVE ids, *)
(*     STAC ids, ADSINT-<icao>-<hour>, MARITINT-<name>-<date>,             *)
(*     SIGINT-<hash(content)>.                                             *)
(***************************************************************************)
EXTENDS Integers, Sequences, FiniteSets, TLC

(***************************************************************************)
(* Bounds of the model.                                                    *)
(***************************************************************************)
MaxBatch == 2      \* items in one external payload
MaxId    == 2      \* distinct external identifiers per namespace
MaxClock == 1      \* collection hours 0..MaxClock
MaxRuns  == 2      \* commands run since the last wipe of the store
MaxSeed  == 2      \* distinct per-process string-hash seeds
MaxCrit  == 6      \* critical_count 0..MaxCrit

HoursPerDay == 24  \* '%Y%m%d%H' against '%Y%m%d'

Workers == {1, 2}

None == <<>>
Some(v) == <<v>>
NULL == <<>>

Ids == 1 .. MaxId
Hours == 0 .. MaxClock
Seeds == 1 .. MaxSeed

WebAdapters == {"osint", "socmint"}
BatchAdapters == {"cisa", "feed", "geoint", "adsint", "maritint", "signals"}
Adapters == WebAdapters \cup BatchAdapters

\* The manager class that owns the session an adapter method uses.
ManagerOf(a) ==
  CASE a = "osint" -> "OSINTManager"
    [] a = "socmint" -> "SOCMINTManager"
    [] a \in {"cisa", "feed"} -> "CYBINTManager"
    [] a = "geoint" -> "GEOINTManager"
    [] a = "adsint" -> "ADSINTManager"
    [] a = "maritint" -> "MARITINTManager"
    [] OTHER -> "SignalsManager"

VARIABLES
  store,      \* committed rows of table `intelligence`, in insertion order
  clock,      \* current collection hour
  runs,       \* collector runs and read-only commands since the last wipe
  pc,         \* per worker: where its adapter call stands
  adapter,    \* per worker: the adapter method being run
  inp,        \* per worker: the external payload [pre, items]
  idx,        \* per worker: index of the item the loop is at
  oracle,     \* how the classification endpoint answers during the run
  pend,       \* per worker: rows added to the session, not yet committed
  sbad,       \* per worker: session transaction rolled back by a failed flush
  seed,       \* per worker: the process's string-hash seed
  replay,     \* per worker: this run repeats the previous payload
  snap,       \* per worker: the store when the run started
  dupAtReach, \* per worker: current item's URL was stored when it was reached
  conflicted, \* per worker: an insert of this run hit the unique constraint
  admitted,   \* per worker: identifiers this run added to its session
  dIn,        \* calculate_defcon: two argument pairs <<m1, c1, m2, c2>>
  dOut,       \* calculate_defcon: the two results, <<>> before the call
  rep         \* what the last read-only command did, <<>> before any and
              \* once a collector run starts

vars == <<store, clock, runs, pc, adapter, inp, idx, oracle, pend, sbad, seed,
          replay, snap, dupAtReach, conflicted, admitted, dIn, dOut, rep>>

ingestVars == <<store, clock, runs, pc, adapter, inp, idx, oracle, pend, sbad, seed,
                replay, snap, dupAtReach, conflicted, admitted>>

(***************************************************************************)
(* The table and the session.                                              *)
(***************************************************************************)
Range(s) == {s[i] : i \in DOMAIN s}

\* Faulty variant: the comparison is made on a column that never matches.
MatchesUrl_other_column(r, u) == FALSE

\* WHERE source_url = :u (IS NULL when the bound value is None), and the
\* comparison the UNIQUE index makes.
MatchesUrl(r, u) == r.source_url = u

\* self.db.query(IntelItem).filter_by(source_url=u).first() is not None
Exists(rows, u) == \E i \in DOMAIN rows : MatchesUrl(rows[i], u)

\* UNIQUE(source_url): SQLite lets any number of NULLs coexist.
UniqueViolation(rows, r) ==
  /\ r.source_url # NULL
  /\ \E i \in DOMAIN rows : MatchesUrl(rows[i], r.source_url)

\* A value sqlite3 can bind as a parameter: None, str, int, float.
Bindable(r) == r.country # "<list>"

\* What a query of worker p sees: committed rows and its own transaction.
View(p) == store \o pend[p]

\* INTEGER PRIMARY KEY: the next rowid.
WithId(r, n) == [r EXCEPT !.id = n]

\* Column(Integer, default=0), Column(Float, default=0.0): the ORM leaves a
\* None attribute out of the INSERT, so the column default applies to it.
ColumnDefaults(r) ==
  [r EXCEPT !.threat_score = IF @ = None THEN Some(0) ELSE @,
            !.confidence = IF @ = None THEN Some(0) ELSE @]

\* Faulty variant: the insert replaces the table's content.
Committed_replace(rows, new) ==
  [i \in 1 .. Len(new) |-> [new[i] EXCEPT !.id = i]]

\* INSERT of the session's rows followed by COMMIT.
Committed(rows, new) ==
  rows \o [i \in 1 .. Len(new) |-> WithId(ColumnDefaults(new[i]), Len(rows) + i)]

\* The flush of rows `new` on top of `rows` succeeds.
RECURSIVE FlushOk(_, _)
FlushOk(rows, new) ==
  IF new = <<>> THEN TRUE
  ELSE /\ Bindable(Head(new))
       /\ ~UniqueViolation(rows, Head(new))
       /\ FlushOk(Append(rows, Head(new)), Tail(new))


(***************************************************************************)
(* The classification oracle (analyze_text).  A JSON object is a record    *)
(* whose field is <<>> when the key is absent and <<v>> when present.      *)
(***************************************************************************)
OracleFailures == {"timeout", "http_error", "not_json"}
OracleReplies ==
  OracleFailures \cup
  {"non_object", "object", "empty_object", "out_of_range", "nulls", "unbindable"}

\* The endpoint's behaviour classes; "failure" is any of OracleFailures.
OracleClasses == (OracleReplies \ OracleFailures) \cup {"failure"}
RepliesOf(class) == IF class = "failure" THEN OracleFailures ELSE {class}

AnalysisKeys == {"summary", "country", "threat_level", "threat_score", "confidence"}

Absent == [k \in AnalysisKeys |-> <<>>]

FallbackAnalysis ==
  [summary |-> <<"Analysis failed due to model error.">>,
   country |-> <<"Unknown">>,
   threat_level |-> <<Some("UNKNOWN")>>,
   threat_score |-> <<Some(0)>>,
   confidence |-> <<Some(0)>>]

\* json.loads(resp.json().get('response', '{}')) for a reply that parses.
JsonLoads(reply) ==
  CASE reply = "object" ->
         [obj |-> TRUE,
          d |-> [summary |-> <<"oracle summary">>, country |-> <<"Ruritania">>,
                 threat_level |-> <<Some("HIGH")>>, threat_score |-> <<Some(80)>>,
                 confidence |-> <<Some(8)>>]]
    [] reply = "empty_object" -> [obj |-> TRUE, d |-> Absent]
    [] reply = "out_of_range" ->
         [obj |-> TRUE,
          d |-> [summary |-> <<"oracle summary">>, country |-> <<"Ruritania">>,
                 threat_level |-> <<Some("SEVERE")>>, threat_score |-> <<Some(150)>>,
                 confidence |-> <<Some(15)>>]]
    [] reply = "nulls" ->
         [obj |-> TRUE,
          d |-> [summary |-> <<"oracle summary">>, country |-> <<"Ruritania">>,
                 threat_level |-> <<None>>, threat_score |-> <<None>>,
                 confidence |-> <<None>>]]
    [] reply = "unbindable" ->
         [obj |-> TRUE,
          d |-> [summary |-> <<"oracle summary">>, country |-> <<"<list>">>,
                 threat_level |-> <<Some("HIGH")>>, threat_score |-> <<Some(80)>>,
                 confidence |-> <<Some(8)>>]]
    [] OTHER -> [obj |-> FALSE, d |-> Absent]   \* a list, a number, null

\* Faulty variant: a failed call is answered with a classified object.
AnalyzeText_no_fallback(reply) ==
  IF reply \in OracleFailures THEN JsonLoads("object") ELSE JsonLoads(reply)

\* analyze_text: the try block returns what json.loads returns; any exception
\* (timeout, raise_for_status, invalid JSON) returns the fixed fallback.
AnalyzeText(reply) ==
  IF reply \in OracleFailures
  THEN [obj |-> TRUE, d |-> FallbackAnalysis]
  ELSE JsonLoads(reply)

\* dict.get(key, default)
Get(d, k, default) == IF d[k] = <<>> THEN default ELSE d[k][1]

(***************************************************************************)
(* Record normalisation, one operator per adapter.  id is set at INSERT.   *)
(***************************************************************************)
Url(k) == <<"url", k, 0>>
EmptyString == <<"", 0, 0>>

\* OSINTManager.bulk_fetch: IntelItem(...)
OsintRow(url, text, analysis, now) ==
  [id |-> 0, int_category |-> "OSINT", source_url |-> url,
   timestamp |-> Some(now), raw_text |-> text,
   summary |-> Get(analysis, "summary", "Analysis Failed"),
   country |-> Get(analysis, "country", "Unknown"),
   threat_level |-> Get(analysis, "threat_level", Some("UNKNOWN")),
   threat_score |-> Get(analysis, "threat_score", Some(0)),
   confidence |-> Get(analysis, "confidence", Some(0))]

\* SOCMINTManager.run_social_search: IntelItem(...)
SocmintRow(url, analysis, now) ==
  [id |-> 0, int_category |-> "SOCMINT", source_url |-> url,
   timestamp |-> Some(now), raw_text |-> "post",
   summary |-> Get(analysis, "summary", "body"),
   country |-> Get(analysis, "country", "Unknown"),
   threat_level |-> Get(analysis, "threat_level", Some("UNKNOWN")),
   threat_score |-> Get(analysis, "threat_score", Some(0)),
   confidence |-> Get(analysis, "confidence", Some(0))]

\* CYBINTManager.fetch_cisa_exploits: IntelItem(...)
CisaRow(cve, now) ==
  [id |-> 0, int_category |-> "CYBINT", source_url |-> cve,
   timestamp |-> Some(now), raw_text |-> "vuln",
   summary |-> "ACTIVE EXPLOIT", country |-> "Global",
   threat_level |-> Some("CRITICAL"), threat_score |-> Some(95),
   confidence |-> Some(10)]

\* any(kw in title or kw in summary for kw in high_threat_keywords)
FeedLevel(hit) == IF hit THEN Some("HIGH") ELSE Some("UNKNOWN")
FeedScore(hit) == IF hit THEN Some(75) ELSE Some(50)

\* CYBINTManager.fetch_feed: IntelItem(...); confidence takes the column default.
FeedRow(link, hit, now) ==
  [id |-> 0, int_category |-> "CYBINT", source_url |-> link,
   timestamp |-> Some(now), raw_text |-> "entry summary",
   summary |-> "feed title", country |-> "Global",
   threat_level |-> FeedLevel(hit), threat_score |-> FeedScore(hit),
   confidence |-> Some(0)]

\* GEOINTManager.search_satellite_metadata: IntelItem(...); threat_level is
\* not passed and has no column default, confidence takes the column default.
GeointRow(stacId, date) ==
  [id |-> 0, int_category |-> "GEOINT", source_url |-> <<"STAC", stacId, 0>>,
   timestamp |-> date, raw_text |-> "props",
   summary |-> "Satellite Pass", country |-> "location",
   threat_level |-> None, threat_score |-> Some(0),
   confidence |-> Some(0)]

\* icao24.upper() in INTERESTING_AIRCRAFT: aircraft 1 is in the table.
IsKnown(icao) == icao = 1

AdsintId(icao, now) == <<"ADSINT", icao, now>>

\* ADSINTManager.scan_region: IntelItem(...)
AdsintRow(icao, now) ==
  [id |-> 0, int_category |-> "ADSINT", source_url |-> AdsintId(icao, now),
   timestamp |-> Some(now), raw_text |-> "ICAO",
   summary |-> "aircraft", country |-> "origin",
   threat_level |-> IF IsKnown(icao) THEN Some("HIGH") ELSE Some("ELEVATED"),
   threat_score |-> IF IsKnown(icao) THEN Some(75) ELSE Some(50),
   confidence |-> Some(10)]

\* datetime.now().strftime('%Y%m%d')
Date(now) == now \div HoursPerDay

MaritintId(name, now) == <<"MARITINT", name, Date(now)>>

\* MARITINTManager._generate_regional_intel: IntelItem(...)
MaritintRow(name, now) ==
  [id |-> 0, int_category |-> "MARITINT", source_url |-> MaritintId(name, now),
   timestamp |-> Some(now), raw_text |-> "pattern",
   summary |-> "pattern", country |-> "region",
   threat_level |-> Some("ELEVATED"), threat_score |-> Some(55),
   confidence |-> Some(7)]

\* f"SIGINT-{hash(sig_content)}": str hashes are salted per process.
Hash(content, s) == <<content, s>>
SigintId(content, s) == <<"SIGINT", Hash(content, s)[1], Hash(content, s)[2]>>

\* detect_eam_patterns: content 1 is a SKYKING match, the others standard.
SigType(content) == IF content = 1 THEN "EAM-SKYKING" ELSE "EAM-STANDARD"
SigPriority(content) == IF content = 1 THEN "CRITICAL" ELSE "HIGH"

\* SignalsManager.ingest_log_file: IntelItem(...)
SignalRow(content, s, now) ==
  [id |-> 0, int_category |-> "COMINT", source_url |-> SigintId(content, s),
   timestamp |-> Some(now), raw_text |-> "signal",
   summary |-> "Intercepted", country |-> "Global",
   threat_level |-> Some(SigPriority(content)),
   threat_score |-> IF SigType(content) = "EAM-SKYKING" THEN Some(90) ELSE Some(60),
   confidence |-> Some(10)]


(***************************************************************************)
(* geoscope.core.utils.parse_flexible_date.  A date string is empty, names *)
(* an hour, or is text dateutil cannot read.                               *)
(***************************************************************************)
DateStrings == {"", "hour 0", "hour 1", "not a date"}

\* dateutil's parser.parse(date_str, fuzzy=True): the hour, or None when it
\* raises ValueError.
ParserParse(date_str) ==
  CASE date_str = "hour 0" -> Some(0)
    [] date_str = "hour 1" -> Some(1)
    [] OTHER -> None

parse_flexible_date(date_str, now) ==
  IF date_str = "" THEN now
  ELSE IF ParserParse(date_str) = None THEN now
  ELSE ParserParse(date_str)[1]

(***************************************************************************)
(* External payloads.                                                      *)
(***************************************************************************)
SeqsUpTo(S, n) == UNION {[1 .. k -> S] : k \in 0 .. n}

\* Search results: url 0 is a result without 'url'/'href'; page is what
\* newspaper extracts from the URL (an article, under 100 characters, an error).
OsintItems ==
  {[url |-> 0, page |-> "article"]} \cup
  [url : Ids, page : {"article", "short", "error"}]
SocmintItems == [url : 0 .. MaxId]
\* Catalog entries: a JSON object with or without cveID, or not an object.
CisaItems ==
  {[dict |-> FALSE, cve |-> 0]} \cup [dict : {TRUE}, cve : 0 .. MaxId]
\* Feed entries: link 0 is an entry without link; hit: a high-threat term
\* occurs in title or summary.
FeedItems == {[link |-> 0, hit |-> FALSE]} \cup [link : Ids, hit : BOOLEAN]
\* STAC items: properties.datetime may be null.
GeointItems == [id : Ids, date : {None, Some(0)}]
\* State vectors: mil: the callsign starts with a watchlist prefix; alt: the
\* barometric altitude is a number (OpenSky sends null on the ground).
AdsintItems == [icao : Ids, mil : BOOLEAN, alt : BOOLEAN]
SignalItems == [content : Ids]

ItemsOf(a) ==
  CASE a = "osint" -> OsintItems
    [] a = "socmint" -> SocmintItems
    [] a = "cisa" -> CisaItems
    [] a = "feed" -> FeedItems
    [] a = "geoint" -> GeointItems
    [] a = "adsint" -> AdsintItems
    [] a = "maritint" -> {}
    [] OTHER -> SignalItems

\* regional_patterns: a known region has two entries, any other region one.
MaritintPayloads ==
  {[pre |-> "ok", items |-> <<[name |-> 1], [name |-> 2]>>],
   [pre |-> "ok", items |-> <<[name |-> 3]>>]}

\* pre: the call that precedes the loop (search, HTTP GET, feed parse,
\* geocoding and catalog search, file read) succeeded or failed.
Payloads(a) ==
  IF a = "maritint" THEN MaritintPayloads
  ELSE {[pre |-> "fail", items |-> <<>>]} \cup
       {[pre |-> "ok", items |-> s] : s \in SeqsUpTo(ItemsOf(a), MaxBatch)}

\* Adapters that return before the loop when the payload is empty.
ReturnsOnEmpty(a) == a \in {"osint", "socmint", "geoint", "adsint", "signals"}

\* Adapters whose loop and final commit sit inside one try/except.
CatchesAll(a) == a \in {"cisa", "geoint"}

Entry(a, in) ==
  IF in.pre = "fail" THEN "returned"
  ELSE IF in.items = <<>> /\ ReturnsOnEmpty(a) THEN "returned"
  ELSE "loop"

Stopped == {"idle", "returned", "raised", "crashed"}

NoPayload == [pre |-> "fail", items |-> <<>>]

(***************************************************************************)
(* Initial state.                                                          *)
(***************************************************************************)
InitIngest ==
  /\ store = <<>>
  /\ clock = 0
  /\ runs = 0
  /\ pc = [p \in Workers |-> "idle"]
  /\ adapter = [p \in Workers |-> "osint"]
  /\ inp = [p \in Workers |-> NoPayload]
  /\ idx = [p \in Workers |-> 1]
  /\ pend = [p \in Workers |-> <<>>]
  /\ sbad = [p \in Workers |-> FALSE]
  /\ seed = [p \in Workers |-> 1]
  /\ replay = [p \in Workers |-> FALSE]
  /\ snap = [p \in Workers |-> <<>>]
  /\ dupAtReach = [p \in Workers |-> FALSE]
  /\ conflicted = [p \in Workers |-> FALSE]
  /\ admitted = [p \in Workers |-> <<>>]

Init ==
  /\ InitIngest
  /\ oracle = "object"
  /\ dIn = <<0, 0, 0, 0>>
  /\ dOut = <<>>
  /\ rep = <<>>

(***************************************************************************)
(* A manager method is called.                                             *)
(***************************************************************************)
Begin(p, a, in, fresh, s, o, again) ==
  /\ pc' = [pc EXCEPT ![p] = Entry(a, in)]
  /\ adapter' = [adapter EXCEPT ![p] = a]
  /\ inp' = [inp EXCEPT ![p] = in]
  /\ idx' = [idx EXCEPT ![p] = 1]
  /\ pend' = [pend EXCEPT ![p] = IF fresh THEN <<>> ELSE @]
  /\ sbad' = [sbad EXCEPT ![p] = IF fresh THEN FALSE ELSE @]
  /\ seed' = [seed EXCEPT ![p] = s]
  /\ replay' = [replay EXCEPT ![p] = again]
  /\ snap' = [snap EXCEPT ![p] = store]
  /\ dupAtReach' = [dupAtReach EXCEPT ![p] = FALSE]
  /\ conflicted' = [conflicted EXCEPT ![p] = FALSE]
  /\ admitted' = [admitted EXCEPT ![p] = <<>>]
  /\ oracle' = o
  /\ runs' = runs + 1
  /\ rep' = <<>>
  /\ UNCHANGED <<store, clock, dIn, dOut>>

\* A new process has a new hash seed; only the signal adapter reads it.
SeedChoices(p, a, fresh) ==
  IF fresh /\ a = "signals" THEN Seeds ELSE {seed[p]}

\* Only the web adapters call the oracle.
OracleChoices(a) == IF a \in WebAdapters THEN OracleClasses ELSE {"object"}

\* The same manager object can be called again only after it returned.
CanReuse(p, a) ==
  pc[p] = "returned" /\ ManagerOf(adapter[p]) = ManagerOf(a)

\* One collector run at a time: a CLI command, or a call inside one.
StartRun(p) ==
  /\ \A q \in Workers : pc[q] \in Stopped
  /\ runs < MaxRuns
  /\ \E a \in Adapters, fresh \in BOOLEAN :
       /\ (~fresh) => CanReuse(p, a)
       /\ \E in \in Payloads(a), s \in SeedChoices(p, a, fresh),
               o \in OracleChoices(a) :
            Begin(p, a, in, fresh, s, o, FALSE)

\* The same adapter is run again on the same payload in the same hour (the
\* hour's end forgets the runs before it).
StartReplay(p) ==
  /\ \A q \in Workers : pc[q] \in Stopped
  /\ pc[p] \in {"returned", "raised"}
  /\ runs < MaxRuns
  /\ \E fresh \in BOOLEAN :
       /\ (~fresh) => CanReuse(p, adapter[p])
       /\ \E s \in SeedChoices(p, adapter[p], fresh) :
            Begin(p, adapter[p], inp[p], fresh, s, oracle, TRUE)


(***************************************************************************)
(* The per-item loop of the web-news and social-search adapters.           *)
(***************************************************************************)
Item(p) == inp[p].items[idx[p]]
InLoop(p) == pc[p] = "loop" /\ idx[p] <= Len(inp[p].items)

\* r.get('url') or r.get('href')  /  r.get('href', '')
WebUrl(a, item) ==
  IF item.url # 0 THEN Url(item.url)
  ELSE IF a = "osint" THEN NULL ELSE EmptyString

\* Faulty variant: the gate makes no lookup.
Skips_no_lookup(a, url, rows) == a = "osint" /\ url = NULL

\* The dedup gate of the web adapters decides to go on with the item.
\* `not url or query.first()` for OSINT, `query.first()` for SOCMINT.
Skips(a, url, rows) ==
  IF a = "osint" /\ url = NULL THEN TRUE ELSE Exists(rows, url)

\* The gate runs a query, which a rolled-back session refuses.
GateQueries(a, url) == ~(a = "osint" /\ url = NULL)

NextItem(p) ==
  /\ idx' = [idx EXCEPT ![p] = @ + 1]
  /\ pc' = [pc EXCEPT ![p] = "loop"]

Gate(p) ==
  /\ InLoop(p)
  /\ adapter[p] \in WebAdapters
  /\ LET url == WebUrl(adapter[p], Item(p)) IN
       IF GateQueries(adapter[p], url) /\ sbad[p]
       THEN \* PendingRollbackError, raised outside the try block
            /\ pc' = [pc EXCEPT ![p] = "raised"]
            /\ UNCHANGED <<idx, dupAtReach>>
       ELSE IF Skips(adapter[p], url, View(p))
       THEN NextItem(p) /\ UNCHANGED dupAtReach
       ELSE /\ pc' = [pc EXCEPT ![p] = "classify"]
            /\ dupAtReach' = [dupAtReach EXCEPT ![p] =
                   \E i \in DOMAIN store : store[i].source_url = url]
            /\ UNCHANGED idx
  /\ UNCHANGED <<store, clock, runs, adapter, inp, oracle, pend, sbad, seed,
                 replay, snap, conflicted, admitted, dIn, dOut, rep>>

\* What the try block of one item does with the item: "row" with the
\* IntelItem it builds, or "except" when an exception ends it before add().
WebAttempt(a, item, reply, now) ==
  LET analysis == AnalyzeText(reply)
      url == WebUrl(a, item)
  IN IF a = "osint"
     THEN IF item.page = "error" THEN [kind |-> "except", row |-> <<>>]
          ELSE IF ~analysis.obj THEN [kind |-> "except", row |-> <<>>]
          ELSE [kind |-> "row",
                row |-> <<OsintRow(url,
                                   IF item.page = "short" THEN "snippet" ELSE "article",
                                   analysis.d, now)>>]
     ELSE IF ~analysis.obj THEN [kind |-> "except", row |-> <<>>]
          ELSE [kind |-> "row", row |-> <<SocmintRow(url, analysis.d, now)>>]

\* The oracle is called for the item: OSINT calls it after a successful
\* extraction, SOCMINT always.
CallsOracle(a, item) == a = "socmint" \/ item.page # "error"

\* Extraction, classification, add() and commit() of one item; every
\* exception is caught and the loop continues.
Save(p) ==
  /\ pc[p] = "classify"
  /\ \E reply \in RepliesOf(oracle) :
       LET att == WebAttempt(adapter[p], Item(p), reply, clock) IN
         IF att.kind = "except" \/ sbad[p]
         THEN UNCHANGED <<store, sbad, conflicted, admitted>>
         ELSE IF ~FlushOk(store, att.row)
         THEN /\ sbad' = [sbad EXCEPT ![p] = TRUE]
              /\ conflicted' = [conflicted EXCEPT ![p] =
                     @ \/ UniqueViolation(store, att.row[1])]
              /\ UNCHANGED <<store, admitted>>
         ELSE /\ store' = Committed(store, att.row)
              /\ admitted' = [admitted EXCEPT ![p] = Append(@, att.row[1].source_url)]
              /\ UNCHANGED <<sbad, conflicted>>
  /\ NextItem(p)
  /\ dupAtReach' = [dupAtReach EXCEPT ![p] = FALSE]
  /\ UNCHANGED <<clock, runs, adapter, inp, oracle, pend, seed, replay, snap,
                 dIn, dOut, rep>>

(***************************************************************************)
(* The per-item loop of the adapters that commit once, after the loop.     *)
(***************************************************************************)
CveId(item) == IF item.cve = 0 THEN NULL ELSE <<"cve", item.cve, 0>>

\* One iteration: "skip" (continue), "add" (db.add(row)) or "error" (an
\* exception is raised inside the loop body).
ItemOutcome(a, item, rows, now, s) ==
  LET skip == [kind |-> "skip", row |-> <<>>]
      error == [kind |-> "error", row |-> <<>>]
      add(r) == [kind |-> "add", row |-> <<r>>]
  IN CASE a = "cisa" ->
            IF ~item.dict THEN error              \* vuln.get on a non-dict
            ELSE IF Exists(rows, CveId(item)) THEN skip
            ELSE add(CisaRow(CveId(item), now))
       [] a = "feed" ->
            IF item.link = 0 THEN skip
            ELSE IF Exists(rows, Url(item.link)) THEN skip
            ELSE add(FeedRow(Url(item.link), item.hit, now))
       [] a = "geoint" ->
            IF Exists(rows, <<"STAC", item.id, 0>>) THEN skip
            ELSE IF item.date = None THEN error   \* None.replace(...)
            ELSE add(GeointRow(item.id, item.date))
       [] a = "adsint" ->
            IF ~(item.mil \/ IsKnown(item.icao)) THEN skip
            ELSE IF Exists(rows, AdsintId(item.icao, now)) THEN skip
            ELSE IF ~item.alt THEN error          \* f"{None:.0f}"
            ELSE add(AdsintRow(item.icao, now))
       [] a = "maritint" ->
            IF Exists(rows, MaritintId(item.name, now)) THEN skip
            ELSE add(MaritintRow(item.name, now))
       [] OTHER ->
            IF Exists(rows, SigintId(item.content, s)) THEN skip
            ELSE add(SignalRow(item.content, s, now))

\* An exception in the loop or in the final commit: logged and swallowed by
\* the enclosing try/except, or raised to the caller.
Unwind(p) ==
  pc' = [pc EXCEPT ![p] = IF CatchesAll(adapter[p]) THEN "returned" ELSE "raised"]

ItemStep(p) ==
  /\ InLoop(p)
  /\ adapter[p] \in BatchAdapters
  /\ LET out == ItemOutcome(adapter[p], Item(p), View(p), clock, seed[p]) IN
       IF sbad[p] \/ out.kind = "error"
       THEN /\ Unwind(p)
            /\ UNCHANGED <<idx, pend, admitted>>
       ELSE /\ NextItem(p)
            /\ pend' = [pend EXCEPT ![p] = @ \o out.row]
            /\ admitted' = [admitted EXCEPT ![p] =
                   @ \o [i \in 1 .. Len(out.row) |-> out.row[i].source_url]]
  /\ UNCHANGED <<store, clock, runs, adapter, inp, oracle, sbad, seed, replay,
                 snap, dupAtReach, conflicted, dIn, dOut, rep>>

\* The loop is over: the web adapters return, the others commit the batch.
LoopEnd(p) ==
  /\ pc[p] = "loop"
  /\ idx[p] > Len(inp[p].items)
  /\ IF adapter[p] \in WebAdapters
     THEN /\ pc' = [pc EXCEPT ![p] = "returned"]
          /\ UNCHANGED <<store, pend, sbad>>
     ELSE IF sbad[p]
     THEN /\ Unwind(p)
          /\ UNCHANGED <<store, pend, sbad>>
     ELSE IF ~FlushOk(store, pend[p])
     THEN /\ Unwind(p)
          /\ sbad' = [sbad EXCEPT ![p] = TRUE]
          /\ pend' = [pend EXCEPT ![p] = <<>>]
          /\ UNCHANGED store
     ELSE /\ store' = Committed(store, pend[p])
          /\ pend' = [pend EXCEPT ![p] = <<>>]
          /\ pc' = [pc EXCEPT ![p] = "returned"]
          /\ UNCHANGED sbad
  /\ UNCHANGED <<clock, runs, adapter, inp, idx, oracle, seed, replay, snap,
                 dupAtReach, conflicted, admitted, dIn, dOut, rep>>

\* The process stops between two steps of a run (kill, power loss): the
\* open transaction is rolled back.
Crash(p) ==
  /\ pc[p] \in {"loop", "classify"}
  /\ pc' = [pc EXCEPT ![p] = "crashed"]
  /\ pend' = [pend EXCEPT ![p] = <<>>]
  /\ sbad' = [sbad EXCEPT ![p] = FALSE]
  /\ inp' = [inp EXCEPT ![p] = NoPayload]
  /\ idx' = [idx EXCEPT ![p] = 1]
  /\ dupAtReach' = [dupAtReach EXCEPT ![p] = FALSE]
  /\ UNCHANGED <<store, clock, runs, adapter, oracle, seed, replay,
                 snap, conflicted, admitted, dIn, dOut, rep>>

\* Every process that ran so far has exited: its manager objects, their
\* sessions and their local variables are gone.
ProcessesEnd ==
  /\ pc' = [q \in Workers |-> "idle"]
  /\ adapter' = [q \in Workers |-> "osint"]
  /\ inp' = [q \in Workers |-> NoPayload]
  /\ idx' = [q \in Workers |-> 1]
  /\ pend' = [q \in Workers |-> <<>>]
  /\ sbad' = [q \in Workers |-> FALSE]
  /\ seed' = [q \in Workers |-> 1]
  /\ replay' = [q \in Workers |-> FALSE]
  /\ snap' = [q \in Workers |-> <<>>]
  /\ dupAtReach' = [q \in Workers |-> FALSE]
  /\ conflicted' = [q \in Workers |-> FALSE]
  /\ admitted' = [q \in Workers |-> <<>>]
  /\ oracle' = "object"

\* The next collection hour begins, between two invocations.
Tick ==
  /\ \A q \in Workers : pc[q] \in Stopped
  /\ clock < MaxClock
  /\ clock' = clock + 1
  /\ ProcessesEnd
  /\ UNCHANGED <<store, runs, dIn, dOut, rep>>

\* A reset that removes the database file before the prompt is answered.
Reset_without_asking(force, confirmed) ==
  /\ \A q \in Workers : pc[q] \in Stopped
  /\ store' = <<>>
  /\ runs' = 0
  /\ ProcessesEnd
  /\ UNCHANGED <<clock, dIn, dOut, rep>>

\* reset: unless forced or confirmed it aborts; else the database file is
\* removed and init_db() creates an empty table.
Reset(force, confirmed) ==
  /\ \A q \in Workers : pc[q] \in Stopped
  /\ IF ~force /\ ~confirmed
     THEN UNCHANGED <<ingestVars, dIn, dOut, rep>>
     ELSE /\ store' = <<>>
          /\ runs' = 0
          /\ ProcessesEnd
          /\ UNCHANGED <<clock, dIn, dOut, rep>>

(***************************************************************************)
(* Commands that only query the table: status, export, map generate and    *)
(* heatmap, and the query of the report commands with filter "global".     *)
(***************************************************************************)
ReadCommands == {"status", "export", "map", "report"}

\* latitude and longitude are set by the satellite, aircraft and vessel
\* adapters only.
HasCoordinates(r) == r.int_category \in {"GEOINT", "ADSINT", "MARITINT"}

\* The rows the command's query returns.
RowsRead(cmd, hours) ==
  LET recent(r) == r.timestamp # None /\ r.timestamp[1] >= clock - hours
      located(r) == recent(r) /\ HasCoordinates(r)
  IN CASE cmd = "report" -> SelectSeq(store, recent)
       [] cmd = "map" -> SelectSeq(store, located)
       [] OTHER -> store

\* The command is a process of its own: when it runs, the processes before
\* it have exited.
Query(cmd, hours) ==
  /\ \A q \in Workers : pc[q] \in Stopped
  /\ runs < MaxRuns
  /\ runs' = runs + 1
  /\ rep' = [cmd |-> cmd, items |-> RowsRead(cmd, hours)]
  /\ ProcessesEnd
  /\ UNCHANGED <<store, clock, dIn, dOut>>

Next ==
  \/ StartRun(1)
  \/ StartReplay(1)
  \/ \E p \in Workers : Gate(p)
  \/ \E p \in Workers : Save(p)
  \/ \E p \in Workers : ItemStep(p)
  \/ \E p \in Workers : LoopEnd(p)
  \/ \E p \in Workers : Crash(p)
  \/ Tick
  \/ \E force, confirmed \in BOOLEAN : Reset(force, confirmed)
  \/ \E cmd \in ReadCommands, hours \in Hours : Query(cmd, hours)

Spec == Init /\ [][Next]_vars


(***************************************************************************)
(* Two collector processes at once (web-news and social-search).           *)
(***************************************************************************)
StartConc(p) ==
  /\ pc[p] \in Stopped
  /\ runs < MaxRuns
  /\ \E a \in WebAdapters :
       \E in \in Payloads(a) : Begin(p, a, in, TRUE, seed[p], "object", FALSE)

NextConc ==
  \/ \E p \in Workers : StartConc(p)
  \/ \E p \in Workers : Gate(p)
  \/ \E p \in Workers : Save(p)
  \/ \E p \in Workers : LoopEnd(p)

SpecConc == Init /\ [][NextConc]_vars

(***************************************************************************)
(* The alert-level calculator.  The mean score is in hundredths.           *)
(***************************************************************************)
\* Faulty variants: a strict comparison at 85; an equality on the count.
calculate_defcon_gt(avg_threat_score, critical_count) ==
  IF critical_count >= 5 \/ avg_threat_score > 8500 THEN 1
  ELSE IF critical_count >= 3 \/ avg_threat_score >= 7000 THEN 2
  ELSE IF critical_count >= 1 \/ avg_threat_score >= 5000 THEN 3
  ELSE IF avg_threat_score >= 3000 THEN 4
  ELSE 5

calculate_defcon_eq(avg_threat_score, critical_count) ==
  IF critical_count >= 5 \/ avg_threat_score >= 8500 THEN 1
  ELSE IF critical_count >= 3 \/ avg_threat_score >= 7000 THEN 2
  ELSE IF critical_count = 1 \/ avg_threat_score >= 5000 THEN 3
  ELSE IF avg_threat_score >= 3000 THEN 4
  ELSE 5

calculate_defcon(avg_threat_score, critical_count) ==
  IF critical_count >= 5 \/ avg_threat_score >= 8500 THEN 1
  ELSE IF critical_count >= 3 \/ avg_threat_score >= 7000 THEN 2
  ELSE IF critical_count >= 1 \/ avg_threat_score >= 5000 THEN 3
  ELSE IF avg_threat_score >= 3000 THEN 4
  ELSE 5

\* Mean scores around every threshold, and beyond 100.
ScoreSamples ==
  {0, 1, 2999, 3000, 3001, 4999, 5000, 5001, 6999, 7000, 7001,
   8499, 8500, 8501, 10000, 15000}

InitDefcon ==
  /\ InitIngest
  /\ oracle = "object"
  /\ dIn \in ScoreSamples \X (0 .. MaxCrit) \X ScoreSamples \X (0 .. MaxCrit)
  /\ dOut = <<>>
  /\ rep = <<>>

ComputeDefcon ==
  /\ dOut = <<>>
  /\ dOut' = <<calculate_defcon(dIn[1], dIn[2]), calculate_defcon(dIn[3], dIn[4])>>
  /\ UNCHANGED <<ingestVars, dIn, rep>>

SpecDefcon == InitDefcon /\ [][ComputeDefcon]_vars

(***************************************************************************)
(* The report commands.  A text is a sequence of characters; a nullable    *)
(* column holds None or Some(text).                                        *)
(***************************************************************************)
MaxRows == 2       \* records in the table when a report runs

BriefCap == 15     \* logs[:15]
FullCap == 20      \* items[:20]

\* str.lower() / SQL lower() on the letters the model uses.
LowerChar(c) ==
  CASE c = "A" -> "a"
    [] c = "C" -> "c"
    [] c = "G" -> "g"
    [] OTHER -> c

Lower(text) == [i \in DOMAIN text |-> LowerChar(text[i])]

\* SQL LIKE: % matches any run of characters, _ any one character.
RECURSIVE Like(_, _)
Like(pattern, text) ==
  IF pattern = <<>> THEN text = <<>>
  ELSE IF Head(pattern) = "%"
  THEN Like(Tail(pattern), text) \/ (text # <<>> /\ Like(pattern, Tail(text)))
  ELSE /\ text # <<>>
       /\ Head(pattern) = "_" \/ Head(pattern) = Head(text)
       /\ Like(Tail(pattern), Tail(text))

\* column.ilike(f"%{value}%"): lower(column) LIKE lower(pattern); NULL
\* matches nothing.
ILike(column, value) ==
  /\ column # None
  /\ Like(<<"%">> \o Lower(value) \o <<"%">>, Lower(column[1]))

Global == <<"g", "l", "o", "b", "a", "l">>
Cyber == <<"c", "y", "b", "e", "r">>
Malware == <<"m", "a", "l", "w", "a", "r", "e">>
Ransomware == <<"r", "a", "n", "s", "o", "m", "w", "a", "r", "e">>
Threat == <<"t", "h", "r", "e", "a", "t">>

\* The values for which the command leaves the entity filter out.
BroadTopics(cmd) ==
  IF cmd = "brief" THEN {Global}
  ELSE {Cyber, Malware, Ransomware, Threat, Global}

\* The or_(...) of the four ilike tests.
EntityMatch(r, value) ==
  \/ ILike(r.country, value)
  \/ ILike(r.summary, value)
  \/ ILike(r.raw_text, value)
  \/ ILike(r.keyword, value)

\* query.filter(timestamp >= since)[.filter(or_(...))].all(), in table order.
Select(rows, cmd, value, hours, now) ==
  LET since == now - hours
      keep(r) == /\ r.timestamp # None
                 /\ r.timestamp[1] >= since
                 /\ (Lower(value) \notin BroadTopics(cmd)) => EntityMatch(r, value)
  IN SelectSeq(rows, keep)

\* The dict of per-category lists: its keys and the category each one reads.
ReportKeys == {"OSINT", "SOCMINT", "GEOINT", "SIGNALS", "CYBINT"}
CategoryOf(key) == IF key = "SIGNALS" THEN "COMINT" ELSE key

Summaries(rows) == [i \in DOMAIN rows |-> rows[i].summary]

\* bool(x.summary)
Truthy(text) == text # None /\ text # Some(<<>>)

\* [x.summary for x in items if x.int_category == c (and x.summary)]
Categorize(items, cmd) ==
  [key \in ReportKeys |->
     LET member(r) == /\ r.int_category = CategoryOf(key)
                      /\ cmd = "full" => Truthy(r.summary)
     IN Summaries(SelectSeq(items, member))]

Take(list, n) == SubSeq(list, 1, IF Len(list) < n THEN Len(list) ELSE n)

\* "\n".join(logs[:15]) raises TypeError on a None element.
Joinable(list) == \A i \in DOMAIN list : list[i] # None

\* critical_count, threat_scores and avg_score of report full; the mean is
\* the pair <<sum, count>>, <<0, 1>> when no score is truthy.
RECURSIVE Sum(_)
Sum(list) == IF list = <<>> THEN 0 ELSE Head(list) + Sum(Tail(list))

\* Faulty variant: the mean is taken over every selected record.
Stats_mean_over_all(items) ==
  LET critical(r) == r.threat_level = Some("CRITICAL")
      all_scores == [i \in DOMAIN items |-> items[i].threat_score[1]]
  IN [item_count |-> Len(items),
      critical_count |-> Len(SelectSeq(items, critical)),
      avg_threat_score |-> <<Sum(all_scores), Len(items)>>]

Stats(items) ==
  LET critical(r) == r.threat_level = Some("CRITICAL")
      scored(r) == r.threat_score # None /\ r.threat_score[1] # 0
      scores == SelectSeq(items, scored)
      threat_scores == [i \in DOMAIN scores |-> scores[i].threat_score[1]]
  IN [item_count |-> Len(items),
      critical_count |-> Len(SelectSeq(items, critical)),
      avg_threat_score |->
        IF threat_scores = <<>> THEN <<0, 1>>
        ELSE <<Sum(threat_scores), Len(threat_scores)>>]

NoLists == [key \in ReportKeys |-> <<>>]
NoStats == [item_count |-> 0, critical_count |-> 0, avg_threat_score |-> <<0, 1>>]

Outcome(cmd, value, hours, items, result, lists, context, stats) ==
  [cmd |-> cmd, value |-> value, hours |-> hours, items |-> items,
   result |-> result, lists |-> lists, context |-> context, stats |-> stats]

\* report brief: "no_data" prints the 'No intelligence found' panel and
\* returns; "raised" is an exception while the context is built;
\* "synthesized" calls generate_summary(context).
generate_brief(country, hours) ==
  LET items == Select(store, "brief", country, hours, clock)
      data == Categorize(items, "brief")
      context == [key \in ReportKeys |-> Take(data[key], BriefCap)]
  IN /\ rep' =
          IF items = <<>>
          THEN Outcome("brief", country, hours, items, "no_data", NoLists, NoLists, NoStats)
          ELSE IF \E key \in ReportKeys : ~Joinable(context[key])
          THEN Outcome("brief", country, hours, items, "raised", data, NoLists, NoStats)
          ELSE Outcome("brief", country, hours, items, "synthesized", data, context, NoStats)
     /\ UNCHANGED <<ingestVars, dIn, dOut>>

\* report full without the sweep: aggregation, statistics and
\* generate_full_report(target, intel_data, stats), which keeps the first
\* FullCap entries of each list.
generate_full(target, hours) ==
  LET items == Select(store, "full", target, hours, clock)
      intel_data == Categorize(items, "full")
      context == [key \in ReportKeys |-> Take(intel_data[key], FullCap)]
  IN /\ rep' =
          IF items = <<>>
          THEN Outcome("full", target, hours, items, "no_data", NoLists, NoLists, NoStats)
          ELSE Outcome("full", target, hours, items, "synthesized", intel_data, context,
                       Stats(items))
     /\ UNCHANGED <<ingestVars, dIn, dOut>>

\* Records the adapters can leave in the table, with their texts spelled
\* out: n numbers the source identifier, t is the timestamp.
Row(n, category, t, country, summary, raw_text, keyword, level, score) ==
  [id |-> 0, int_category |-> category, source_url |-> Url(n),
   timestamp |-> Some(t), country |-> country, summary |-> summary,
   raw_text |-> raw_text, keyword |-> keyword, threat_level |-> level,
   threat_score |-> score, confidence |-> Some(0)]

SampleRows ==
  LET x == Some(<<"x">>) IN
  { \* OSINT, classified; the country is the only column holding "a"
    Row(1, "OSINT", 0, Some(<<"a">>), x, x, x, Some("HIGH"), Some(80)),
    \* OSINT, keyword "cyber", the oracle answered null for every key
    Row(2, "OSINT", 1, None, None, x, Some(Cyber), None, None),
    \* SOCMINT, empty result body kept as summary; raw_text holds "A"
    Row(3, "SOCMINT", 1, x, Some(<<>>), Some(<<"A", "b">>), x, Some("UNKNOWN"), Some(0)),
    \* CYBINT from the catalog; the summary holds "a"
    Row(4, "CYBINT", 0, x, Some(<<"b", "a">>), x, x, Some("CRITICAL"), Some(95)),
    \* GEOINT: no threat_level
    Row(5, "GEOINT", 1, x, x, x, x, None, Some(0)),
    \* ADSINT; the callsign kept as keyword is "a"
    Row(6, "ADSINT", 0, x, x, x, Some(<<"a">>), Some("ELEVATED"), Some(50)),
    \* MARITINT
    Row(7, "MARITINT", 1, x, x, x, x, Some("ELEVATED"), Some(55)),
    \* COMINT from the signal log
    Row(8, "COMINT", 1, x, x, x, Some(<<"H">>), Some("CRITICAL"), Some(90)) }

\* Tables of up to MaxRows distinct sample records.
SampleStores ==
  {Committed(<<>>, rows) :
     rows \in {q \in SeqsUpTo(SampleRows, MaxRows) :
                 \A i, j \in DOMAIN q : i # j => q[i] # q[j]}}

\* --country / target values, and --hours.
ReportValues ==
  {Global, <<"G", "l", "o", "b", "a", "l">>, Cyber, <<"a">>, <<"A">>, <<"_">>, <<"z">>}
ReportHours == 0 .. MaxClock

InitReport ==
  /\ store \in SampleStores
  /\ clock \in Hours
  /\ runs = 0
  /\ pc = [p \in Workers |-> "idle"]
  /\ adapter = [p \in Workers |-> "osint"]
  /\ inp = [p \in Workers |-> NoPayload]
  /\ idx = [p \in Workers |-> 1]
  /\ oracle = "object"
  /\ pend = [p \in Workers |-> <<>>]
  /\ sbad = [p \in Workers |-> FALSE]
  /\ seed = [p \in Workers |-> 1]
  /\ replay = [p \in Workers |-> FALSE]
  /\ snap = [p \in Workers |-> <<>>]
  /\ dupAtReach = [p \in Workers |-> FALSE]
  /\ conflicted = [p \in Workers |-> FALSE]
  /\ admitted = [p \in Workers |-> <<>>]
  /\ dIn = <<0, 0, 0, 0>>
  /\ dOut = <<>>
  /\ rep = <<>>

NextReport ==
  \/ \E value \in ReportValues, hours \in ReportHours : generate_brief(value, hours)
  \/ \E value \in ReportValues, hours \in ReportHours : generate_full(value, hours)

SpecReport == InitReport /\ [][NextReport]_vars

(***************************************************************************)
(* GEOINTManager.get_coordinates and search_satellite_metadata as one      *)
(* call.  Coordinates are in tenths of a degree.                           *)
(***************************************************************************)
BboxMargin == 1

Latitudes == {-10, 0, 10}
Longitudes == {-10, 0, 10}

\* What self.geocoder.geocode(location_name) does: raises, returns None, or
\* returns a location.
GeocoderReplies ==
  {[kind |-> "exception", lat |-> 0, lon |-> 0],
   [kind |-> "not_found", lat |-> 0, lon |-> 0]} \cup
  [kind : {"found"}, lat : Latitudes, lon : Longitudes]

get_coordinates(geo) ==
  IF geo.kind = "found" THEN <<Some(geo.lat), Some(geo.lon)>>
  ELSE <<None, None>>

\* `if not lat: return` lets the call go on.
Located(lat) == lat # None /\ lat[1] # 0

Bbox(lat, lon) ==
  <<lon - BboxMargin, lat - BboxMargin, lon + BboxMargin, lat + BboxMargin>>

\* The loop over the catalog items: the rows added to the session, or an
\* exception.
RECURSIVE GeoLoop(_, _, _)
GeoLoop(items, rows, added) ==
  IF items = <<>> THEN [kind |-> "done", rows |-> added]
  ELSE LET out == ItemOutcome("geoint", Head(items), rows \o added, 0, 1)
       IN IF out.kind = "error" THEN [kind |-> "error", rows |-> <<>>]
          ELSE GeoLoop(Tail(items), rows, added \o out.row)

GeoCall(geo, cat, queried, bbox, before) ==
  [cmd |-> "geoint", geo |-> geo, cat |-> cat, queried |-> queried,
   bbox |-> bbox, before |-> before]

search_satellite_metadata(geo, cat) ==
  LET coords == get_coordinates(geo)
      lat == coords[1]
      lon == coords[2]
  IN /\ IF ~Located(lat)
        THEN /\ rep' = GeoCall(geo, cat, FALSE, <<>>, store)
             /\ UNCHANGED store
        ELSE /\ rep' = GeoCall(geo, cat, TRUE, Bbox(lat[1], lon[1]), store)
             /\ IF cat.pre = "fail" \/ cat.items = <<>>
                THEN UNCHANGED store
                ELSE LET loop == GeoLoop(cat.items, store, <<>>) IN
                       IF loop.kind = "error" THEN UNCHANGED store
                       ELSE store' = Committed(store, loop.rows)
     /\ UNCHANGED <<clock, runs, pc, adapter, inp, idx, oracle, pend, sbad, seed,
                    replay, snap, dupAtReach, conflicted, admitted, dIn, dOut>>

InitGeo ==
  /\ InitIngest
  /\ oracle = "object"
  /\ dIn = <<0, 0, 0, 0>>
  /\ dOut = <<>>
  /\ rep = <<>>

NextGeo ==
  \E geo \in GeocoderReplies, cat \in Payloads("geoint") :
    search_satellite_metadata(geo, cat)

SpecGeo == InitGeo /\ [][NextGeo]_vars


(***************************************************************************)
(* OSINTManager.bulk_fetch with its two searches: ddgs.news, and ddgs.text *)
(* when the first raises.                                                  *)
(***************************************************************************)
\* Results a search returns: with or without a URL, the page an article.
SearchItems == {[url |-> 0, page |-> "article"]} \cup [url : Ids, page : {"article"}]

\* A search raises (rate limit, network) or returns a list of results.
SearchReplies ==
  {[raises |-> TRUE, items |-> <<>>]} \cup
  {[raises |-> FALSE, items |-> r] : r \in SeqsUpTo(SearchItems, MaxBatch)}

\* Faulty variant: an empty first result list also starts the second search.
TriesSecondary_on_empty(primary) == primary.raises \/ primary.items = <<>>

\* The except branch of the first search is the only place of the second.
TriesSecondary(primary) == primary.raises

\* `results` when the loop is reached, and the searches made to get it.
Search(primary, secondary) ==
  LET tried == TriesSecondary(primary) IN
    [pre |-> IF tried /\ secondary.raises THEN "fail" ELSE "ok",
     items |-> IF ~tried THEN primary.items
               ELSE IF secondary.raises THEN <<>> ELSE secondary.items,
     primary |-> primary,
     secondary |-> secondary,
     tried |-> tried]

bulk_fetch(p) ==
  /\ \A q \in Workers : pc[q] \in Stopped
  /\ runs < MaxRuns
  /\ \E primary \in SearchReplies, secondary \in SearchReplies,
        fresh \in BOOLEAN, o \in OracleClasses :
       /\ (~fresh) => CanReuse(p, "osint")
       /\ Begin(p, "osint", Search(primary, secondary), fresh, seed[p], o, FALSE)

NextSearch ==
  \/ bulk_fetch(1)
  \/ Gate(1)
  \/ Save(1)
  \/ LoopEnd(1)

SpecSearch == Init /\ [][NextSearch]_vars


(***************************************************************************)
(* CYBINTManager.scan_all and the collection sweep of report full, at the  *)
(* level of what each source does: every call of one CYBINTManager shares  *)
(* one session; each collector of the sweep has a manager of its own.      *)
(***************************************************************************)
MaxFeeds == 3

\* fetch_cisa_exploits: the catalog is stored; the HTTP request or the JSON
\* decoding raises; an entry raises in the loop; a row is refused at flush
\* (a value sqlite3 cannot bind, a locked or conflicting write).
CatalogOutcomes == {"ok", "http_error", "bad_entry", "flush_error"}

\* fetch_feed: the entries are stored; feedparser.parse raises; the
\* database refuses the write at commit.
FeedOutcomes == {"ok", "parse_error", "commit_error"}

FeedLists == UNION {[1 .. n -> FeedOutcomes] : n \in 1 .. MaxFeeds}

\* The whole body of fetch_cisa_exploits is inside try/except Exception: it
\* never raises; a failed flush leaves the session's transaction inactive.
CisaCall(catalog) ==
  [raised |-> FALSE, bad |-> catalog = "flush_error"]

\* Only feedparser.parse is inside a try; the queries of the loop and the
\* commit are not. On an inactive transaction they raise PendingRollbackError.
FeedCall(feed, bad) ==
  IF feed = "parse_error" THEN [raised |-> FALSE, bad |-> bad]
  ELSE IF bad THEN [raised |-> TRUE, bad |-> TRUE]
  ELSE IF feed = "commit_error" THEN [raised |-> TRUE, bad |-> TRUE]
  ELSE [raised |-> FALSE, bad |-> FALSE]

\* for name, url in CYBER_FEEDS.items(): count = self.fetch_feed(...)
RECURSIVE PollFeeds(_, _, _)
PollFeeds(feeds, bad, polled) ==
  IF feeds = <<>> THEN [raised |-> FALSE, polled |-> polled]
  ELSE LET call == FeedCall(Head(feeds), bad) IN
         IF call.raised THEN [raised |-> TRUE, polled |-> polled + 1]
         ELSE PollFeeds(Tail(feeds), call.bad, polled + 1)

ScanAll(catalog, feeds) == PollFeeds(feeds, CisaCall(catalog).bad, 0)

scan_all(catalog, feeds) ==
  /\ rep' = [cmd |-> "scan_all", catalog |-> catalog, feeds |-> feeds,
             polled |-> ScanAll(catalog, feeds).polled,
             raised |-> ScanAll(catalog, feeds).raised]
  /\ UNCHANGED <<ingestVars, dIn, dOut>>

\* The sweep: each collector in a try/except Exception of its own, then the
\* aggregation phase.
Collectors == <<"OSINT", "SOCMINT", "GEOINT", "CYBINT">>

RECURSIVE RunCollectors(_, _, _)
RunCollectors(k, raises, started) ==
  IF k > Len(Collectors) THEN started
  ELSE RunCollectors(k + 1, raises, Append(started, Collectors[k]))

sweep(raises, catalog, feeds) ==
  LET cyb == ScanAll(catalog, feeds)
      all == [c \in {"OSINT", "SOCMINT", "GEOINT"} |-> raises[c]] @@
             [c \in {"CYBINT"} |-> cyb.raised]
  IN /\ rep' = [cmd |-> "sweep", raises |-> all, catalog |-> catalog,
                feeds |-> feeds, polled |-> cyb.polled,
                started |-> RunCollectors(1, all, <<>>),
                aggregated |-> TRUE]
     /\ UNCHANGED <<ingestVars, dIn, dOut>>

NextSweep ==
  \/ \E catalog \in CatalogOutcomes, feeds \in FeedLists : scan_all(catalog, feeds)
  \/ \E raises \in [{"OSINT", "SOCMINT", "GEOINT"} -> BOOLEAN],
        catalog \in CatalogOutcomes, feeds \in FeedLists :
       sweep(raises, catalog, feeds)

SpecSweep == Init /\ [][NextSweep]_vars


(***************************************************************************)
(* CYBINTManager.fetch_feed on one entry, with the entry's texts spelled   *)
(* out as character sequences.                                             *)
(***************************************************************************)
MaxTitle == 2
MaxSummary == 1

FeedAlphabet == {"a", "A", "c", "C", "z"}

\* high_threat_keywords: a term in lower case and one written in capitals
\* (as 'attack' and 'CVE-').
HighThreatKeywords == {<<"a", "c">>, <<"C">>}

\* getattr(entry, 'title', 'No Title'); getattr(entry, 'summary',
\* getattr(entry, 'description', '')): None stands for a missing attribute.
NoTitle == <<"z", "z">>
Titles == {None} \cup {Some(t) : t \in SeqsUpTo(FeedAlphabet, MaxTitle)}
FeedSummaries == {None} \cup {Some(t) : t \in SeqsUpTo(FeedAlphabet, MaxSummary)}

\* Python's `kw in text` on strings.
Contains(text, kw) ==
  \E i \in 1 .. Len(text) + 1 :
    /\ i + Len(kw) - 1 <= Len(text)
    /\ SubSeq(text, i, i + Len(kw) - 1) = kw

\* Faulty variant: the terms are looked up as written, the texts as they are.
IsHighThreat_case_sensitive(title, summary) ==
  \E kw \in HighThreatKeywords : Contains(title, kw) \/ Contains(summary, kw)

\* any(kw.lower() in title.lower() or kw.lower() in summary.lower() ...)
IsHighThreat(title, summary) ==
  \E kw \in HighThreatKeywords :
    Contains(Lower(title), Lower(kw)) \/ Contains(Lower(summary), Lower(kw))

\* fetch_feed on a feed of one entry: the entry is skipped (no link, link
\* already stored) or added and committed.
fetch_feed(link, title, summary) ==
  LET t == IF title = None THEN NoTitle ELSE title[1]
      d == IF summary = None THEN <<>> ELSE summary[1]
      skipped == link = 0 \/ Exists(store, Url(link))
  IN /\ runs < MaxRuns
     /\ runs' = runs + 1
     /\ store' = IF skipped THEN store
                 ELSE Committed(store, <<FeedRow(Url(link), IsHighThreat(t, d), clock)>>)
     /\ rep' = [cmd |-> "feed", link |-> link, title |-> t, summary |-> d,
                stored |-> ~skipped]
     /\ UNCHANGED <<clock, pc, adapter, inp, idx, oracle, pend, sbad, seed,
                    replay, snap, dupAtReach, conflicted, admitted, dIn, dOut>>

NextFeed ==
  \E link \in 0 .. MaxId, title \in Titles, summary \in FeedSummaries :
    fetch_feed(link, title, summary)

SpecFeed == Init /\ [][NextFeed]_vars


(***************************************************************************)
(* ADSINTManager.scan_region on one state vector, with the hardware id and *)
(* the callsign spelled out as character sequences.                        *)
(***************************************************************************)
MaxCallsign == 2
IcaoLen == 2

\* MILITARY_CALLSIGNS and the keys of INTERESTING_AIRCRAFT, both written in
\* capitals.
MILITARY_CALLSIGNS == {<<"C">>}
INTERESTING_AIRCRAFT == {<<"A", "A">>}

\* state[0]: OpenSky sends the hex id in lower case.
Icao24s == [1 .. IcaoLen -> {"a", "A", "z"}]
\* state[1]: null, or text padded with blanks.
Callsigns == {None} \cup {Some(c) : c \in SeqsUpTo({"c", "C", "z", " "}, MaxCallsign)}

\* str.upper() on the letters the model uses.
UpperChar(c) ==
  CASE c = "a" -> "A"
    [] c = "c" -> "C"
    [] OTHER -> c

Upper(text) == [i \in DOMAIN text |-> UpperChar(text[i])]

\* str.strip()
RECURSIVE Strip(_)
Strip(text) ==
  IF text = <<>> THEN <<>>
  ELSE IF Head(text) = " " THEN Strip(Tail(text))
  ELSE IF text[Len(text)] = " " THEN Strip(SubSeq(text, 1, Len(text) - 1))
  ELSE text

\* str.startswith(prefix)
StartsWith(text, prefix) ==
  Len(prefix) <= Len(text) /\ SubSeq(text, 1, Len(prefix)) = prefix

\* any(callsign.upper().startswith(prefix) for prefix in MILITARY_CALLSIGNS)
is_military(callsign) ==
  \E prefix \in MILITARY_CALLSIGNS : StartsWith(Upper(callsign), prefix)

\* Faulty variant: the id is looked up as received.
is_known_as_received(icao24) == icao24 \in INTERESTING_AIRCRAFT

\* icao24.upper() in INTERESTING_AIRCRAFT
is_known(icao24) == Upper(icao24) \in INTERESTING_AIRCRAFT

\* ADSINTManager.scan_region: IntelItem(...)
StateRow(icao24, known, now) ==
  [id |-> 0, int_category |-> "ADSINT", source_url |-> AdsintId(icao24, now),
   timestamp |-> Some(now), raw_text |-> "ICAO",
   summary |-> "aircraft", country |-> "origin",
   threat_level |-> IF known THEN Some("HIGH") ELSE Some("ELEVATED"),
   threat_score |-> IF known THEN Some(75) ELSE Some(50),
   confidence |-> Some(10)]

\* scan_region on a response of one state vector: filtered out, skipped as
\* stored in this hour, raised on a null altitude, or added and committed.
scan_region(icao24, state1, alt) ==
  LET callsign == Strip(IF state1 = None THEN <<>> ELSE state1[1])
      wanted == is_military(callsign) \/ is_known(icao24)
      dup == Exists(store, AdsintId(icao24, clock))
      stored == wanted /\ ~dup /\ alt
  IN /\ runs < MaxRuns
     /\ runs' = runs + 1
     /\ store' = IF stored
                 THEN Committed(store, <<StateRow(icao24, is_known(icao24), clock)>>)
                 ELSE store
     /\ rep' = [cmd |-> "adsint", icao24 |-> icao24, callsign |-> callsign,
                state1 |-> state1, stored |-> stored,
                raised |-> wanted /\ ~dup /\ ~alt]
     /\ UNCHANGED <<clock, pc, adapter, inp, idx, oracle, pend, sbad, seed,
                    replay, snap, dupAtReach, conflicted, admitted, dIn, dOut>>

NextAds ==
  \E icao24 \in Icao24s, state1 \in Callsigns, alt \in BOOLEAN :
    scan_region(icao24, state1, alt)

SpecAds == Init /\ [][NextAds]_vars


(***************************************************************************)
(* Vocabulary of the properties.                                           *)
(***************************************************************************)
Finished(p) == pc[p] \in {"returned", "raised"}

\* The identifier under which an item is looked up and stored.
KeyOf(a, item, now, s) ==
  CASE a \in WebAdapters -> WebUrl(a, item)
    [] a = "cisa" -> CveId(item)
    [] a = "feed" -> Url(item.link)
    [] a = "geoint" -> <<"STAC", item.id, 0>>
    [] a = "adsint" -> AdsintId(item.icao, now)
    [] a = "maritint" -> MaritintId(item.name, now)
    [] OTHER -> SigintId(item.content, s)

KeyAt(p, i) == KeyOf(adapter[p], inp[p].items[i], clock, seed[p])

Stored(u) == \E i \in DOMAIN store : store[i].source_url = u

\* Processed on its own against an empty table, the item is stored.
Sound(p, i) ==
  LET a == adapter[p]
      item == inp[p].items[i]
  IN IF a \in WebAdapters
     THEN /\ ~Skips(a, WebUrl(a, item), <<>>)
          /\ \A reply \in RepliesOf(oracle) :
               LET att == WebAttempt(a, item, reply, clock) IN
                 att.kind = "row" /\ FlushOk(<<>>, att.row)
     ELSE ItemOutcome(a, item, <<>>, clock, seed[p]).kind = "add"

\* Processed on its own against an empty table, the item raises an exception.
Fails(p, i) ==
  LET a == adapter[p]
      item == inp[p].items[i]
  IN IF a \in WebAdapters
     THEN /\ ~Skips(a, WebUrl(a, item), <<>>)
          /\ \E reply \in RepliesOf(oracle) :
               LET att == WebAttempt(a, item, reply, clock) IN
                 att.kind = "except" \/ ~FlushOk(<<>>, att.row)
     ELSE ItemOutcome(a, item, <<>>, clock, seed[p]).kind = "error"


(***************************************************************************)
(* Properties.                                                             *)
(***************************************************************************)

\* C1: after any sequence of collector runs, no two records of the store
\* carry the same source_url.
SourceUrlIsUnique ==
  \A i, j \in DOMAIN store :
    i # j => store[i].source_url # store[j].source_url

\* A run whose payload names one identifier twice has returned, and the
\* identifier is stored.
SourceUrlIsUnique_witness ==
  \E p \in Workers :
    /\ pc[p] = "returned"
    /\ \E i, j \in DOMAIN inp[p].items :
         i < j /\ KeyAt(p, i) = KeyAt(p, j) /\ Stored(KeyAt(p, i))

\* C2: running an adapter again on the payload it just processed adds no
\* record, changes none and raises no error.
RerunIsNoOp ==
  \A p \in Workers :
    replay[p] => store = snap[p] /\ pc[p] # "raised"

\* C3: calculate_defcon returns the level of the first matching rule, an
\* integer from 1 to 5; level(85, 0) = 1, level(84.99, 0) = 2,
\* level(0, 5) = 1, level(0, 0) = 5.
DefconRules ==
  dOut # <<>> =>
    LET m == dIn[1]
        c == dIn[2]
        level == dOut[1]
    IN /\ level \in 1 .. 5
       /\ level = 1 <=> (c >= 5 \/ m >= 8500)
       /\ level = 2 <=> (~(c >= 5 \/ m >= 8500) /\ (c >= 3 \/ m >= 7000))
       /\ level = 3 <=> (~(c >= 3 \/ m >= 7000) /\ (c >= 1 \/ m >= 5000))
       /\ level = 4 <=> (~(c >= 1 \/ m >= 5000) /\ m >= 3000)
       /\ level = 5 <=> (c = 0 /\ m < 3000)
       /\ (m = 8500 /\ c = 0) => level = 1
       /\ (m = 8499 /\ c = 0) => level = 2
       /\ (m = 0 /\ c = 5) => level = 1
       /\ (m = 0 /\ c = 0) => level = 5

\* The level just under the threshold of 85 has been computed.
DefconRules_witness ==
  dOut # <<>> /\ dIn[1] = 8499 /\ dIn[2] = 0 /\ dOut[1] = 2

\* C4: raising the mean score or the critical count never raises the level
\* number.
DefconMonotone ==
  (dOut # <<>> /\ dIn[1] <= dIn[3] /\ dIn[2] <= dIn[4]) => dOut[1] >= dOut[2]

\* Two inputs in order whose levels differ by the count alone.
DefconMonotone_witness ==
  /\ dOut # <<>>
  /\ dIn[1] = dIn[3] /\ dIn[2] = 0 /\ dIn[4] = 1
  /\ dIn[1] < 3000
  /\ dOut = <<5, 3>>

\* C5: every stored record has a threat_score in 0..100 and a confidence in
\* 0.0..1.0 (0..10 tenths), neither null.
ScoreAndConfidenceInRange ==
  \A i \in DOMAIN store :
    /\ store[i].threat_score # None
    /\ store[i].threat_score[1] \in 0 .. 100
    /\ store[i].confidence # None
    /\ store[i].confidence[1] \in 0 .. 10

\* C6: when one item of a batch fails, the adapter raises nothing and the
\* other items of the batch that can be stored are in the store when it ends.
ItemFailureIsContained ==
  \A p \in Workers :
    (Finished(p) /\ \E j \in DOMAIN inp[p].items : Fails(p, j)) =>
      /\ pc[p] = "returned"
      /\ \A i \in DOMAIN inp[p].items : Sound(p, i) => Stored(KeyAt(p, i))

\* C7: a process that dies in the middle of a batch loses none of the
\* records it admitted before.
AdmittedItemsSurviveCrash ==
  \A p \in Workers :
    pc[p] = "crashed" =>
      \A i \in DOMAIN admitted[p] : Stored(admitted[p][i])

\* C8: the web adapters never call analyze_text for an item whose URL was in
\* the store when the item was reached.
NoOracleCallForStoredUrl ==
  \A p \in Workers :
    (pc[p] = "classify" /\ CallsOracle(adapter[p], Item(p))) => ~dupAtReach[p]

\* An item is about to be classified after the item before it was skipped
\* as already stored.
NoOracleCallForStoredUrl_witness ==
  \E p \in Workers :
    /\ pc[p] = "classify"
    /\ CallsOracle(adapter[p], Item(p))
    /\ idx[p] = 2
    /\ admitted[p] = <<>>
    /\ Stored(KeyAt(p, 1))
    /\ ~Stored(KeyAt(p, 2))

\* C9: when two processes admit the same new URL, one record exists; the
\* process whose write is rejected raises nothing and stores the rest of
\* its batch.
ConflictIsSkip ==
  /\ SourceUrlIsUnique
  /\ \A p \in Workers :
       conflicted[p] =>
         /\ pc[p] # "raised"
         /\ pc[p] = "returned" =>
              \A i \in DOMAIN inp[p].items : Sound(p, i) => Stored(KeyAt(p, i))

\* C10: whatever the oracle does, every item that passed the gate and whose
\* page was extracted is stored once the adapter has handled it.
OracleNeverBlocksStorage ==
  \A p \in Workers :
    (adapter[p] \in WebAdapters /\ pc[p] \in {"loop", "returned"}) =>
      \A i \in DOMAIN inp[p].items :
        (/\ i < idx[p]
         /\ ~Skips(adapter[p], KeyAt(p, i), <<>>)
         /\ CallsOracle(adapter[p], inp[p].items[i])) => Stored(KeyAt(p, i))


\* C11: while the oracle fails on every call, every record a web adapter
\* stores has threat_level UNKNOWN, threat_score 0, confidence 0.0, country
\* Unknown and a non-empty summary.
FallbackRecord(r) ==
  /\ r.threat_level = Some("UNKNOWN")
  /\ r.threat_score = Some(0)
  /\ r.confidence = Some(0)
  /\ r.country = "Unknown"
  /\ r.summary # ""

FailingOracleGivesFallback ==
  \A p \in Workers :
    (adapter[p] \in WebAdapters /\ oracle = "failure") =>
      \A i \in DOMAIN admitted[p] : \A j \in DOMAIN store :
        store[j].source_url = admitted[p][i] => FallbackRecord(store[j])

\* A web run under a failing oracle has stored a record.
FailingOracleGivesFallback_witness ==
  \E p \in Workers :
    /\ adapter[p] \in WebAdapters /\ oracle = "failure"
    /\ admitted[p] # <<>>
    /\ Stored(admitted[p][1])


\* C12: a report command that selects no record prints that no intelligence
\* was found and does not call the synthesis function; one that selects at
\* least one record calls it.
SynthesisIffSelected ==
  rep # <<>> =>
    /\ rep.items = <<>> => rep.result = "no_data"
    /\ rep.items # <<>> => rep.result = "synthesized"

\* C13: in report full, item_count is the number of selected records,
\* critical_count the number of CRITICAL ones, and avg_threat_score the sum
\* of the nonzero scores over their number, 0 when there is none.
Nonzero(items) == {i \in DOMAIN items : items[i].threat_score \notin {None, Some(0)}}

RECURSIVE SumOver(_, _)
SumOver(items, I) ==
  IF I = {} THEN 0
  ELSE LET i == CHOOSE k \in I : TRUE
       IN items[i].threat_score[1] + SumOver(items, I \ {i})

FullStatistics ==
  (rep # <<>> /\ rep.cmd = "full" /\ rep.result = "synthesized") =>
    /\ rep.stats.item_count = Len(rep.items)
    /\ rep.stats.critical_count =
         Cardinality({i \in DOMAIN rep.items : rep.items[i].threat_level = Some("CRITICAL")})
    /\ rep.stats.avg_threat_score =
         IF Nonzero(rep.items) = {} THEN <<0, 1>>
         ELSE <<SumOver(rep.items, Nonzero(rep.items)), Cardinality(Nonzero(rep.items))>>

\* A full report over a record with score 0 and a CRITICAL record with a
\* nonzero score.
FullStatistics_witness ==
  /\ rep # <<>> /\ rep.cmd = "full" /\ rep.result = "synthesized"
  /\ Len(rep.items) = 2
  /\ Cardinality(Nonzero(rep.items)) = 1
  /\ rep.stats.critical_count = 1
  /\ rep.stats.avg_threat_score[1] > 0

\* C14: every selected record is in exactly one per-category list, so the
\* sizes of the lists before capping add up to the number of selected
\* records.
RECURSIVE TotalLen(_, _)
TotalLen(lists, K) ==
  IF K = {} THEN 0
  ELSE LET key == CHOOSE k \in K : TRUE
       IN Len(lists[key]) + TotalLen(lists, K \ {key})

ListsCoverSelection ==
  (rep # <<>> /\ rep.result = "synthesized") =>
    TotalLen(rep.lists, DOMAIN rep.lists) = Len(rep.items)

\* C15: a record is selected iff its timestamp is inside the window and,
\* unless the filter is "global" in any case, the filter is a
\* case-insensitive substring of country, summary, raw_text or keyword.
IsSubstring(value, column) ==
  /\ column # None
  /\ \E i \in 1 .. Len(column[1]) + 1 :
       /\ i + Len(value) - 1 <= Len(column[1])
       /\ SubSeq(Lower(column[1]), i, i + Len(value) - 1) = Lower(value)

ShouldSelect(r, value, hours, now) ==
  /\ r.timestamp # None
  /\ r.timestamp[1] >= now - hours
  /\ Lower(value) # Global =>
       \/ IsSubstring(value, r.country)
       \/ IsSubstring(value, r.summary)
       \/ IsSubstring(value, r.raw_text)
       \/ IsSubstring(value, r.keyword)

SelectionRule ==
  rep # <<>> =>
    \A i \in DOMAIN store :
      (\E j \in DOMAIN rep.items : rep.items[j] = store[i])
        <=> ShouldSelect(store[i], rep.value, rep.hours, clock)


\* C16: the web-news adapter is run on two results A and B, A stored before
\* the run and B not (B's page being one the extractor can read): after the
\* run the store is the store before it plus one record, keyed by B, of
\* category OSINT.
IsScenario(p, i, j) ==
  /\ i # j
  /\ Exists(snap[p], KeyAt(p, i))
  /\ KeyAt(p, j) # NULL
  /\ ~Exists(snap[p], KeyAt(p, j))
  /\ CallsOracle(adapter[p], inp[p].items[j])

WebNewsScenario ==
  \A p \in Workers :
    (adapter[p] = "osint" /\ Finished(p) /\ Len(inp[p].items) = 2) =>
      \A i, j \in 1 .. 2 :
        IsScenario(p, i, j) =>
          /\ Len(store) = Len(snap[p]) + 1
          /\ SubSeq(store, 1, Len(snap[p])) = snap[p]
          /\ store[Len(store)].source_url = KeyAt(p, j)
          /\ store[Len(store)].int_category = "OSINT"


\* C17: when fetch_cisa_exploits has ended, every catalog item it processed
\* whose cveID was not in the store before the run has exactly one record,
\* keyed by the cveID, of category CYBINT, threat_level CRITICAL,
\* threat_score 95 and confidence 1.0.
IsCisaRecord(r) ==
  /\ r.int_category = "CYBINT"
  /\ r.threat_level = Some("CRITICAL")
  /\ r.threat_score = Some(95)
  /\ r.confidence = Some(10)

NewCve(p, i) ==
  /\ i < idx[p]
  /\ inp[p].items[i].dict
  /\ inp[p].items[i].cve # 0
  /\ ~Exists(snap[p], KeyAt(p, i))

CisaItemIsStored ==
  \A p \in Workers :
    (adapter[p] = "cisa" /\ Finished(p)) =>
      \A i \in DOMAIN inp[p].items :
        NewCve(p, i) =>
          /\ Cardinality({k \in DOMAIN store :
                            store[k].source_url = KeyAt(p, i)}) = 1
          /\ \A k \in DOMAIN store :
               store[k].source_url = KeyAt(p, i) => IsCisaRecord(store[k])


\* C18: an item whose source gives no date, or one that cannot be parsed, is
\* stored with the ingestion time and the adapter raises nothing; no stored
\* record has a null timestamp; parse_flexible_date returns the current time
\* for an empty or unparseable string.
StoredAt(u, t) ==
  \E k \in DOMAIN store : store[k].source_url = u /\ store[k].timestamp = Some(t)

MissingDateIsIngestionTime ==
  /\ \A k \in DOMAIN store : store[k].timestamp # None
  /\ \A p \in Workers :
       (adapter[p] = "geoint" /\ Finished(p)) =>
         \A i \in DOMAIN inp[p].items :
           inp[p].items[i].date = None =>
             pc[p] = "returned" /\ StoredAt(KeyAt(p, i), clock)
  /\ \A d \in DateStrings, now \in Hours :
       (d = "" \/ ParserParse(d) = None) => parse_flexible_date(d, now) = now


\* C19: every stored record's threat_level is one of LOW, ELEVATED, HIGH,
\* CRITICAL, UNKNOWN; it is never null and never another string.
ThreatLevels == {"LOW", "ELEVATED", "HIGH", "CRITICAL", "UNKNOWN"}

ThreatLevelIsALabel ==
  \A k \in DOMAIN store :
    /\ store[k].threat_level # None
    /\ store[k].threat_level[1] \in ThreatLevels


\* C20: no step other than a reset changes or removes a stored record: after
\* every collector run and every status, export, map or report command, each
\* record that was in the store is still there with its id and all its
\* fields.
IsReset == \E force, confirmed \in BOOLEAN : Reset(force, confirmed)

RecordsKept ==
  /\ Len(store') >= Len(store)
  /\ \A k \in DOMAIN store : store'[k] = store[k]

OnlyResetRemovesRecords == [][RecordsKept \/ IsReset]_vars

\* A collector run has added records to a store that held some, and those
\* are still there.
OnlyResetRemovesRecords_witness ==
  \E p \in Workers :
    /\ pc[p] = "returned"
    /\ snap[p] # <<>>
    /\ Len(store) > Len(snap[p])
    /\ SubSeq(store, 1, Len(snap[p])) = snap[p]


\* C21: the store holds at most one ADSINT record per aircraft hardware id
\* and collection hour, and an aircraft recorded in an earlier hour is
\* recorded again by a scan of a later hour in which it passes the filter.
PassesFilter(item) == item.mil \/ IsKnown(item.icao)

RecordedBefore(icao) == \E h \in Hours : h < clock /\ Stored(AdsintId(icao, h))

OncePerAircraftAndHour ==
  /\ \A i, j \in DOMAIN store :
       (/\ store[i].int_category = "ADSINT"
        /\ store[j].int_category = "ADSINT"
        /\ store[i].source_url = store[j].source_url) => i = j
  /\ \A p \in Workers :
       (adapter[p] = "adsint" /\ Finished(p)) =>
         \A i \in DOMAIN inp[p].items :
           (PassesFilter(inp[p].items[i]) /\ RecordedBefore(inp[p].items[i].icao))
             => Stored(AdsintId(inp[p].items[i].icao, clock))


\* C22: the key of a detected signal depends only on the matched content, so
\* ingesting the same log again, in the same process or in a later one,
\* adds no record: the store holds one record per distinct match content.
ContentOf(r) == r.source_url[2]

OneRecordPerContent ==
  \A i, j \in DOMAIN store :
    (/\ store[i].int_category = "COMINT"
     /\ store[j].int_category = "COMINT"
     /\ ContentOf(store[i]) = ContentOf(store[j])) => i = j


\* C23: search_satellite_metadata queries the imagery catalog exactly when
\* the geocoder resolved the location, whatever coordinates it returned; when
\* geocoding fails no query is made and the store is unchanged.
CatalogQueriedIffResolved ==
  (rep # <<>> /\ rep.cmd = "geoint") =>
    /\ rep.queried <=> rep.geo.kind = "found"
    /\ rep.geo.kind # "found" => store = rep.before


\* C24: a web-news result whose URL is not yet stored and whose page yields
\* fewer than 100 characters is stored with the result's snippet as its text.
NewWhenReached(p, i) ==
  /\ KeyAt(p, i) # NULL
  /\ ~Exists(snap[p], KeyAt(p, i))
  /\ \A j \in 1 .. (i - 1) : KeyAt(p, j) # KeyAt(p, i)

ShortPageUsesSnippet ==
  \A p \in Workers :
    adapter[p] = "osint" =>
      \A i \in DOMAIN inp[p].items :
        (/\ i < idx[p]
         /\ inp[p].items[i].page = "short"
         /\ NewWhenReached(p, i)) =>
          \E k \in DOMAIN store :
            /\ store[k].source_url = KeyAt(p, i)
            /\ store[k].raw_text = "snippet"


\* C25: bulk_fetch makes the second search exactly when the first raises;
\* what the second search returns goes through the same loop and the same
\* dedup gate; when the second search raises too, bulk_fetch returns,
\* raising nothing and leaving the store as it was.
Started(p) == pc[p] # "idle" /\ runs > 0

SecondaryIffPrimaryRaises ==
  \A p \in Workers :
    Started(p) =>
      /\ inp[p].tried <=> inp[p].primary.raises
      /\ (inp[p].primary.raises /\ ~inp[p].secondary.raises) =>
           /\ inp[p].items = inp[p].secondary.items
           /\ \A i \in DOMAIN inp[p].items :
                (i < idx[p] /\ KeyAt(p, i) # NULL /\ Exists(snap[p], KeyAt(p, i))) =>
                  Cardinality({k \in DOMAIN store :
                                 store[k].source_url = KeyAt(p, i)}) = 1
      /\ (inp[p].primary.raises /\ inp[p].secondary.raises) =>
           pc[p] = "returned" /\ store = snap[p]

\* The first search raised, the second returned two results, one stored
\* before the run and one new, and the run has stored the new one only.
SecondaryIffPrimaryRaises_witness ==
  \E p \in Workers :
    /\ pc[p] = "returned"
    /\ inp[p].primary.raises /\ ~inp[p].secondary.raises
    /\ Len(inp[p].items) = 2
    /\ Exists(snap[p], KeyAt(p, 1))
    /\ ~Exists(snap[p], KeyAt(p, 2))
    /\ Stored(KeyAt(p, 2))
    /\ Len(store) = Len(snap[p]) + 1


\* C26: a failure of one source never keeps the sources after it from being
\* collected: in the sweep every collector is started and the aggregation
\* is reached whatever raised, and scan_all polls every feed whatever the
\* catalog fetch and the feeds before it did.
LaterSourcesAreCollected ==
  /\ (rep # <<>> /\ rep.cmd = "sweep") =>
       rep.started = Collectors /\ rep.aggregated
  /\ (rep # <<>> /\ rep.cmd \in {"sweep", "scan_all"}) =>
       rep.polled = Len(rep.feeds)


\* C27: fetch_feed stores an entry with threat_level HIGH and threat_score
\* 75 if and only if a term of the high-threat vocabulary occurs, ignoring
\* case, in its title or its summary; otherwise with UNKNOWN and 50.
SameIgnoringCase(a, b) ==
  /\ Len(a) = Len(b)
  /\ \A k \in DOMAIN a : LowerChar(a[k]) = LowerChar(b[k])

Occurs(term, text) ==
  \E i \in 1 .. Len(text), j \in 1 .. Len(text) :
    i <= j /\ SameIgnoringCase(SubSeq(text, i, j), term)

FeedSeverityIffTerm ==
  (rep # <<>> /\ rep.cmd = "feed" /\ rep.stored) =>
    \A k \in DOMAIN store :
      store[k].source_url = Url(rep.link) =>
        IF \E term \in HighThreatKeywords :
             Occurs(term, rep.title) \/ Occurs(term, rep.summary)
        THEN store[k].threat_level = Some("HIGH") /\ store[k].threat_score = Some(75)
        ELSE store[k].threat_level = Some("UNKNOWN") /\ store[k].threat_score = Some(50)

\* An entry whose title holds a term in another case has been stored HIGH.
FeedSeverityIffTerm_witness ==
  /\ rep # <<>> /\ rep.cmd = "feed" /\ rep.stored
  /\ rep.title = <<"A", "C">> /\ rep.summary = <<>>
  /\ \E k \in DOMAIN store :
       /\ store[k].source_url = Url(rep.link)
       /\ store[k].threat_level = Some("HIGH")


\* C28: scan_region stores a record for an aircraft only if its callsign
\* starts with a watchlist prefix or its hardware id, ignoring case, is in
\* the high-value table; the record is HIGH with score 75 if and only if the
\* id is in the table, ELEVATED with score 50 otherwise, so a known asset
\* scores strictly higher than a prefix-only match.
InTable(icao24) ==
  \E e \in INTERESTING_AIRCRAFT : SameIgnoringCase(icao24, e)

\* The callsign, the blanks before it aside, begins with a watchlist prefix
\* (in either case).
HasPrefix(text) ==
  \E i \in 1 .. Len(text) : \E prefix \in MILITARY_CALLSIGNS :
    /\ \A k \in 1 .. (i - 1) : text[k] = " "
    /\ text[i] # " "
    /\ i + Len(prefix) - 1 <= Len(text)
    /\ SameIgnoringCase(SubSeq(text, i, i + Len(prefix) - 1), prefix)

IcaoOf(r) == r.source_url[2]

AircraftFilterAndSeverity ==
  /\ (rep # <<>> /\ rep.cmd = "adsint" /\ rep.stored) =>
       \/ InTable(rep.icao24)
       \/ rep.state1 # None /\ HasPrefix(rep.state1[1])
  /\ \A k \in DOMAIN store :
       store[k].int_category = "ADSINT" =>
         IF InTable(IcaoOf(store[k]))
         THEN store[k].threat_level = Some("HIGH") /\ store[k].threat_score = Some(75)
         ELSE store[k].threat_level = Some("ELEVATED") /\ store[k].threat_score = Some(50)
  /\ \A k, m \in DOMAIN store :
       (/\ store[k].int_category = "ADSINT" /\ store[m].int_category = "ADSINT"
        /\ InTable(IcaoOf(store[k])) /\ ~InTable(IcaoOf(store[m]))) =>
         store[k].threat_score[1] > store[m].threat_score[1]

\* A known asset received in lower case and a prefix-only match are both
\* stored.
AircraftFilterAndSeverity_witness ==
  /\ Len(store) = 2
  /\ IcaoOf(store[1]) = <<"a", "a">>
  /\ store[1].threat_level = Some("HIGH")
  /\ ~InTable(IcaoOf(store[2]))
  /\ store[2].threat_level = Some("ELEVATED")


\* C29: a reset run with --force or with a confirmed prompt leaves an empty
\* store, whatever the store held; a reset declined at the prompt leaves
\* every stored record as it was.
ResetOutcome(force, confirmed) ==
  IF force \/ confirmed THEN store' = <<>> ELSE store' = store

ResetWipesOrAborts ==
  [][\A force, confirmed \in BOOLEAN :
       Reset(force, confirmed) => ResetOutcome(force, confirmed)]_vars

\* The last read-only command listed records and the store is empty now:
\* a reset has wiped a store that held records.
ResetWipesOrAborts_witness ==
  /\ rep # <<>>
  /\ rep.items # <<>>
  /\ store = <<>>
  /\ runs = 0


\* C30: no stored record has a null or an empty source_url: an item that
\* carries no identifier is skipped and never stored.
HasIdentifier(r) == r.source_url # NULL /\ r.source_url # EmptyString

EveryRecordHasIdentifier == \A k \in DOMAIN store : HasIdentifier(store[k])


====
